---- MODULE Spec2Model ----
(***************************************************************************)
(* Model of the vLLM PoC server: the platform configuration selector       *)
(* (config.py), the full server (app.py: lifespan, /health,                *)
(* /v1/chat/completions) and the simplified demo server (app_simple.py).   *)
(*                                                                         *)
(* Text is modelled as a sequence of atoms.  An atom is either a           *)
(* whitespace character (" " or "\n") or a fragment of non-whitespace      *)
(* characters; adjacent fragments belong to the same word.  Temperatures   *)
(* and nucleus thresholds are kept in tenths (0.7 is 7).                    *)
(***************************************************************************)
EXTENDS Integers, Sequences, FiniteSets, TLC

(***************************************************************************)
(* Bounds of the model.                                                    *)
(***************************************************************************)
\* longest message list of a chat request in the request/response study
MaxMsgs == 2
\* longest stream of outputs the engine yields for one generate call
MaxStream == 2

(***************************************************************************)
(* Text helpers: str.strip(), str.split(), concatenation.                  *)
(***************************************************************************)
Whitespace == {" ", "\n"}

RECURSIVE lstrip(_)
lstrip(s) ==
    IF s = <<>> THEN <<>>
    ELSE IF Head(s) \in Whitespace THEN lstrip(Tail(s)) ELSE s

RECURSIVE rstrip(_)
rstrip(s) ==
    IF s = <<>> THEN <<>>
    ELSE IF s[Len(s)] \in Whitespace THEN rstrip(SubSeq(s, 1, Len(s) - 1)) ELSE s

\* str.strip(): leading and trailing whitespace removed
strip(s) == rstrip(lstrip(s))

\* len(text) without its whitespace, in place of len(text.split())
split_len_chars(s) == Cardinality({i \in 1..Len(s) : s[i] \notin Whitespace})

\* len(str.split()): the number of maximal runs of non-whitespace
split_len(s) ==
    Cardinality({i \in 1..Len(s) :
        /\ s[i] \notin Whitespace
        /\ (i = 1 \/ s[i - 1] \in Whitespace)})

\* a sequence of words joined by single spaces
RECURSIVE Join(_)
Join(ws) ==
    IF ws = <<>> THEN <<>>
    ELSE IF Len(ws) = 1 THEN <<ws[1]>>
    ELSE <<ws[1], " ">> \o Join(Tail(ws))

\* all sequences over S of length at most n
RECURSIVE SeqsUpTo(_, _)
SeqsUpTo(S, n) ==
    IF n = 0 THEN {<<>>}
    ELSE LET shorter == SeqsUpTo(S, n - 1)
         IN  shorter \cup {Append(q, x) : q \in {p \in shorter : Len(p) = n - 1}, x \in S}

(***************************************************************************)
(* config.py: platform detection and the configuration table.              *)
(***************************************************************************)
\* values of platform.system() and platform.machine() on the hosts considered
Systems == {"Darwin", "Linux", "Windows", "FreeBSD"}
Machines == {<<"arm", "64">>, <<"x86_64">>, <<"aarch64">>, <<"AMD64">>, <<"ARM", "64">>}

\* str.lower() on the fragments that occur in Systems and Machines
lower_atom(a) ==
    CASE a = "Darwin" -> "darwin"
      [] a = "Linux" -> "linux"
      [] a = "Windows" -> "windows"
      [] a = "FreeBSD" -> "freebsd"
      [] a = "AMD64" -> "amd64"
      [] a = "ARM" -> "arm"
      [] OTHER -> a

lower(s) == [i \in 1..Len(s) |-> lower_atom(s[i])]

\* the `sub in machine` test, on fragments
contains(s, sub) == \E i \in 1..Len(s) : s[i] = sub

\* the detection without lowering the machine name
_detect_platform_as_spelled(system_raw, machine_raw) ==
    LET system == lower_atom(system_raw)
        machine == machine_raw
    IN  IF system = "darwin"
        THEN IF contains(machine, "arm") \/ contains(machine, "aarch64")
             THEN "macos_apple_silicon"
             ELSE "macos_intel"
        ELSE IF system = "linux" THEN "linux"
        ELSE IF system = "windows" THEN "windows"
        ELSE "unknown"

_detect_platform(system_raw, machine_raw) ==
    LET system == lower_atom(system_raw)
        machine == lower(machine_raw)
    IN  IF system = "darwin"
        THEN IF contains(machine, "arm") \/ contains(machine, "aarch64")
             THEN "macos_apple_silicon"
             ELSE "macos_intel"
        ELSE IF system = "linux" THEN "linux"
        ELSE IF system = "windows" THEN "windows"
        ELSE "unknown"

\* what one run of the nvidia-smi command can end in
ProbeOutcomes == {"exit0", "nonzero", "timeout", "notfound", "oserror"}

\* _has_cuda on one run of the command: only TimeoutExpired and
\* FileNotFoundError are caught, any other error to launch propagates
_has_cuda(outcome) ==
    CASE outcome = "exit0" -> [raised |-> FALSE, value |-> TRUE]
      [] outcome = "nonzero" -> [raised |-> FALSE, value |-> FALSE]
      [] outcome = "timeout" -> [raised |-> FALSE, value |-> FALSE]
      [] outcome = "notfound" -> [raised |-> FALSE, value |-> FALSE]
      [] OTHER -> [raised |-> TRUE, value |-> FALSE]

\* the number of times building the table runs the command
ProbeCalls == 4

\* the table of _get_platform_config; probes[k] is the outcome of the k-th
\* run of the command, in the order the dictionary literal evaluates them
configs(probes) ==
    [macos_apple_silicon |->
        [name |-> "macOS Apple Silicon", supports_cuda |-> FALSE, supports_mps |-> TRUE,
         vllm_backend |-> "cpu", installation_method |-> "pip_source",
         requirements_file |-> "requirements-macos.txt",
         docker_base_image |-> "python:3.11-slim",
         additional_setup |-> <<"brew install cmake",
                                "export MACOSX_DEPLOYMENT_TARGET=11.0",
                                "pip install torch torchvision torchaudio">>],
     macos_intel |->
        [name |-> "macOS Intel", supports_cuda |-> FALSE, supports_mps |-> FALSE,
         vllm_backend |-> "cpu", installation_method |-> "pip_source",
         requirements_file |-> "requirements-macos.txt",
         docker_base_image |-> "python:3.11-slim",
         additional_setup |-> <<"brew install cmake",
                                "pip install torch torchvision torchaudio">>],
     linux |->
        [name |-> "Linux", supports_cuda |-> _has_cuda(probes[1]).value, supports_mps |-> FALSE,
         vllm_backend |-> IF _has_cuda(probes[2]).value THEN "cuda" ELSE "cpu",
         installation_method |-> "pip",
         requirements_file |-> "requirements.txt",
         docker_base_image |-> "nvidia/cuda:12.1-devel-ubuntu22.04",
         additional_setup |-> <<>>],
     windows |->
        [name |-> "Windows", supports_cuda |-> _has_cuda(probes[3]).value, supports_mps |-> FALSE,
         vllm_backend |-> IF _has_cuda(probes[4]).value THEN "cuda" ELSE "cpu",
         installation_method |-> "pip",
         requirements_file |-> "requirements-windows.txt",
         docker_base_image |-> "mcr.microsoft.com/windows/servercore:ltsc2022",
         additional_setup |-> <<"Install Visual Studio Build Tools",
                                "Install CUDA Toolkit if GPU acceleration needed">>]]

\* configs.get(self.platform, configs["linux"])
_get_platform_config(plat, probes) ==
    LET table == configs(probes)
    IN  IF plat \in DOMAIN table THEN table[plat] ELSE table["linux"]

_get_default_model(cfg) ==
    IF cfg.supports_cuda THEN "microsoft/DialoGPT-medium" ELSE "microsoft/DialoGPT-small"

\* os.getenv("MODEL_NAME", default); the variable is unset or set
EnvModelNames == {"<unset>", "my-org/my-model"}

getenv_MODEL_NAME(env, default) == IF env = "<unset>" THEN default ELSE env

\* ConfigManager(): raised when a run of the command fails to launch with an
\* error _has_cuda does not catch
ConfigManager(system_raw, machine_raw, probes, env) ==
    LET plat == _detect_platform(system_raw, machine_raw)
        cfg == _get_platform_config(plat, probes)
    IN  [raised |-> \E k \in 1..ProbeCalls : _has_cuda(probes[k]).raised,
         platform |-> plat,
         config |-> cfg,
         MODEL_NAME |-> getenv_MODEL_NAME(env, _get_default_model(cfg))]

startswith(text, prefix) ==
    /\ Len(text) >= Len(prefix)
    /\ SubSeq(text, 1, Len(prefix)) = prefix

\* the platform tags spelled out, for startswith
tag_letters(plat) ==
    CASE plat = "macos_apple_silicon" -> <<"macos", "_", "apple", "_", "silicon">>
      [] plat = "macos_intel" -> <<"macos", "_", "intel">>
      [] OTHER -> <<plat>>

\* no dictionary of engine arguments built yet
NoArgs == [key \in {} |-> TRUE]

\* get_vllm_args: dict.update as @@ with the update on the left; the
\* variables of the environment other than MODEL_NAME are at their defaults
get_vllm_args(plat, cfg, name) ==
    LET base_args == [model |-> name, tensor_parallel_size |-> 1,
                      max_model_len |-> 2048, trust_remote_code |-> TRUE]
        with_backend ==
            IF cfg.supports_cuda
            THEN [gpu_memory_utilization |-> 9, dtype |-> "auto"] @@ base_args
            ELSE [enforce_eager |-> TRUE, disable_custom_all_reduce |-> TRUE] @@ base_args
    IN  IF startswith(tag_letters(plat), <<"macos">>)
        THEN [enforce_eager |-> TRUE, disable_custom_all_reduce |-> TRUE,
              max_num_seqs |-> 16] @@ with_backend
        ELSE with_backend

(***************************************************************************)
(* app.py: request and response shapes.                                    *)
(***************************************************************************)
None == "None"

\* Optional[...] values of a parsed request
Some(v) == [some |-> TRUE, val |-> v]
Nothing == [some |-> FALSE, val |-> 0]

\* a generation knob as it stands in the JSON body
Omitted == [kind |-> "omitted", val |-> 0]
Null == [kind |-> "null", val |-> 0]
Number(n) == [kind |-> "number", val |-> n]

\* the `messages` member as it stands in the JSON body
MissingMessages == [kind |-> "missing", items |-> <<>>]
StringMessages == [kind |-> "string", items |-> <<>>]
ArrayMessages(items) == [kind |-> "array", items |-> items]

\* a JSON object with both members of a ChatMessage, and one without content
Msg(role, content) == [fields |-> {"role", "content"}, role |-> role, content |-> content]
MsgNoContent(role) == [fields |-> {"role"}, role |-> role, content |-> <<>>]

\* defaults of the ChatRequest fields
DEFAULT_MAX_TOKENS == 512
DEFAULT_TEMPERATURE == 7
DEFAULT_TOP_P == 9

\* a field of ChatRequest with a default: omitted -> default, null -> None
knob_field(raw, default) ==
    CASE raw.kind = "omitted" -> Some(default)
      [] raw.kind = "null" -> Nothing
      [] OTHER -> Some(raw.val)

\* ChatMessage(role: str, content: str)
ChatMessage_valid(item) == {"role", "content"} \subseteq item.fields

\* ChatRequest: validation of the body against the schema, and the parsed request
ChatRequest(body) ==
    LET ok == /\ body.messages.kind = "array"
              /\ \A i \in 1..Len(body.messages.items) : ChatMessage_valid(body.messages.items[i])
    IN  [ok |-> ok,
         messages |-> IF ok
                      THEN [i \in 1..Len(body.messages.items) |->
                               [role |-> body.messages.items[i].role,
                                content |-> body.messages.items[i].content]]
                      ELSE <<>>,
         max_tokens |-> knob_field(body.max_tokens, DEFAULT_MAX_TOKENS),
         temperature |-> knob_field(body.temperature, DEFAULT_TEMPERATURE),
         top_p |-> knob_field(body.top_p, DEFAULT_TOP_P)]

NoBody == [kind |-> "none"]

HTTPException(status_code, detail) ==
    [status |-> status_code, detail |-> detail, body |-> NoBody]

\* the framework's answer to a body that fails the schema
RequestValidationError == HTTPException(422, <<"validation error">>)

OK(body) == [status |-> 200, detail |-> <<>>, body |-> body]

NoResponse == [status |-> 0, detail |-> <<>>, body |-> NoBody]

(***************************************************************************)
(* app.py: the stand-in engine and the engine's generate contract.         *)
(***************************************************************************)
\* one output of generate: the request id and the candidate texts
RequestOutput(request_id, candidates) == [request_id |-> request_id, outputs |-> candidates]

\* a generation: the outputs yielded, then a normal end or an exception
\* with the given message
Stream(yields, raises, error) == [yields |-> yields, raises |-> raises, error |-> error]

MockText ==
    Join(<<"Demo", "response:", "This", "is", "a", "mock", "response", "since",
           "vLLM", "is", "not", "available.">>)

\* AsyncLLMEngine.generate of the stand-in: exactly one MockOutput
MockGenerate(call) == Stream(<<RequestOutput(call.request_id, <<MockText>>)>>, FALSE, <<>>)

\* what generate does for this call: the stand-in's single stream, or any of
\* the behaviours of the library's engine
generate(engine, call, behaviours) ==
    IF engine = "mock" THEN {MockGenerate(call)}
    ELSE {Stream([i \in 1..Len(b.yields) |-> RequestOutput(call.request_id, b.yields[i])],
                 b.raises, b.error) : b \in behaviours}

(***************************************************************************)
(* app.py: the handlers.                                                   *)
(***************************************************************************)
\* health_check answering 503 also when the vLLM library is not importable
health_check_gated(engine, cfg, vllm_available, name) ==
    IF engine = None \/ ~vllm_available
    THEN HTTPException(503, <<"Model not loaded">>)
    ELSE OK([kind |-> "health", status |-> "healthy", model |-> name,
             gpu_memory_used |-> IF cfg.supports_cuda THEN "CUDA enabled"
                                 ELSE IF cfg.supports_mps THEN "MPS (Apple Silicon) enabled"
                                 ELSE "CPU only"])

\* health_check without the test of the handle
health_check_unguarded(engine, cfg, vllm_available, name) ==
    OK([kind |-> "health",
        status |-> IF vllm_available THEN "healthy" ELSE "demo_mode",
        model |-> name,
        gpu_memory_used |-> IF cfg.supports_cuda THEN "CUDA enabled"
                            ELSE IF cfg.supports_mps THEN "MPS (Apple Silicon) enabled"
                            ELSE "CPU only"])

health_check(engine, cfg, vllm_available, name) ==
    IF engine = None
    THEN HTTPException(503, <<"Model not loaded">>)
    ELSE LET gpu_info == IF cfg.supports_cuda THEN "CUDA enabled"
                         ELSE IF cfg.supports_mps THEN "MPS (Apple Silicon) enabled"
                         ELSE "CPU only"
             status == IF vllm_available THEN "healthy" ELSE "demo_mode"
         IN  OK([kind |-> "health", status |-> status, model |-> name,
                 gpu_memory_used |-> gpu_info])

\* list_models with the model id written out instead of read from the
\* configuration
list_models_fixed(name) ==
    OK([kind |-> "models", object |-> "list",
        data |-> <<[id |-> "microsoft/DialoGPT-small", object |-> "model",
                    created |-> 1677610602, owned_by |-> "vllm-poc"]>>])

list_models(name) ==
    OK([kind |-> "models", object |-> "list",
        data |-> <<[id |-> name, object |-> "model",
                    created |-> 1677610602, owned_by |-> "vllm-poc"]>>])

\* the loop with a third branch that writes system messages too
RECURSIVE prompt_loop_with_system(_, _)
prompt_loop_with_system(messages, prompt) ==
    IF messages = <<>> THEN prompt
    ELSE prompt_loop_with_system(Tail(messages),
             prompt \o <<(IF Head(messages).role = "user" THEN "User:"
                          ELSE IF Head(messages).role = "assistant" THEN "Assistant:"
                          ELSE "System:"), " ">>
                    \o Head(messages).content \o <<"\n">>)

\* the loop over request.messages, prompt being the text built so far
RECURSIVE prompt_loop(_, _)
prompt_loop(messages, prompt) ==
    IF messages = <<>> THEN prompt
    ELSE LET message == Head(messages)
         IN  prompt_loop(Tail(messages),
                 IF message.role = "user"
                 THEN prompt \o <<"User:", " ">> \o message.content \o <<"\n">>
                 ELSE IF message.role = "assistant"
                 THEN prompt \o <<"Assistant:", " ">> \o message.content \o <<"\n">>
                 ELSE prompt)

build_prompt(messages) == prompt_loop(messages, <<>>) \o <<"Assistant:">>

\* fallbacks of the `or` expressions that build SamplingParams
FALLBACK_TEMPERATURE == 7
FALLBACK_TOP_P == 9
FALLBACK_MAX_TOKENS == 512

\* `x or fallback`: None and zero are falsy
or_fallback(x, fallback) == IF x.some /\ x.val # 0 THEN x.val ELSE fallback

SamplingParams(request) ==
    [temperature |-> or_fallback(request.temperature, FALLBACK_TEMPERATURE),
     top_p |-> or_fallback(request.top_p, FALLBACK_TOP_P),
     max_tokens |-> or_fallback(request.max_tokens, FALLBACK_MAX_TOKENS)]

\* the generate call the handler makes for a request
generate_call(request) ==
    [prompt |-> build_prompt(request.messages),
     sampling_params |-> SamplingParams(request),
     request_id |-> "chat"]

\* the loop keeping the first output instead of the last
consume_first(yields, final_output) ==
    IF yields = <<>> THEN final_output ELSE Some(Head(yields))

\* the `async for` loop: final_output after the outputs yielded
RECURSIVE consume(_, _)
consume(yields, final_output) ==
    IF yields = <<>> THEN final_output
    ELSE consume(Tail(yields), Some(Head(yields)))

\* the except clause: any Exception becomes a 500 carrying str(e)
generation_failed(message) == HTTPException(500, <<"Generation failed: ">> \o message)

\* the ChatResponse built from the final output
chat_response(prompt, final_output) ==
    LET generated_text == final_output.outputs[1]
    IN  OK([kind |-> "chat",
            id |-> <<"chat-", final_output.request_id>>,
            choices |-> <<[index |-> 0,
                           message |-> [role |-> "assistant",
                                        content |-> strip(generated_text)],
                           finish_reason |-> "stop"]>>,
            usage |-> [prompt_tokens |-> split_len(prompt),
                       completion_tokens |-> split_len(generated_text),
                       total_tokens |-> split_len(prompt) + split_len(generated_text)]])

NoOutput == [some |-> FALSE, val |-> RequestOutput("", <<>>)]

\* the try block with an exception of the stream dropped once an output has
\* been received
try_generate_lenient(prompt, stream) ==
    LET final_output == consume(stream.yields, NoOutput)
    IN  IF ~final_output.some
        THEN IF stream.raises
             THEN generation_failed(stream.error)
             ELSE generation_failed(<<"500: ">> \o HTTPException(500, <<"No output generated">>).detail)
        ELSE IF final_output.val.outputs = <<>>
        THEN generation_failed(<<"list index out of range">>)
        ELSE chat_response(prompt, final_output.val)

\* the try block of chat_completions on one generation: an exception of the
\* stream, the HTTPException of the missing output and the IndexError of an
\* output without candidates all reach the except clause
try_generate(prompt, stream) ==
    LET final_output == consume(stream.yields, NoOutput)
    IN  IF stream.raises
        THEN generation_failed(stream.error)
        ELSE IF ~final_output.some
        THEN generation_failed(<<"500: ">> \o HTTPException(500, <<"No output generated">>).detail)
        ELSE IF final_output.val.outputs = <<>>
        THEN generation_failed(<<"list index out of range">>)
        ELSE chat_response(prompt, final_output.val)

\* chat_completions without the test of the handle: the attribute lookup on
\* None fails inside the try block
chat_completions_unguarded(engine, request, behaviours) ==
    IF engine = None
    THEN {[calls |-> <<>>,
           response |-> generation_failed(<<"'NoneType' object has no attribute 'generate'">>)]}
    ELSE {[calls |-> <<[call |-> generate_call(request), results |-> stream]>>,
           response |-> try_generate(generate_call(request).prompt, stream)] :
             stream \in generate(engine, generate_call(request), behaviours)}

\* chat_completions(request): the generate calls it may make and the response
\* to each way the generation can go
chat_completions(engine, request, behaviours) ==
    IF engine = None
    THEN {[calls |-> <<>>, response |-> HTTPException(503, <<"Model not loaded">>)]}
    ELSE LET call == generate_call(request)
         IN  {[calls |-> <<[call |-> call, results |-> stream]>>,
               response |-> try_generate(call.prompt, stream)] :
                 stream \in generate(engine, call, behaviours)}

\* the route with the handle tested before the body is validated
post_chat_completions_engine_first(engine, body, behaviours) ==
    IF engine = None
    THEN {[calls |-> <<>>, response |-> HTTPException(503, <<"Model not loaded">>)]}
    ELSE IF ~ChatRequest(body).ok
    THEN {[calls |-> <<>>, response |-> RequestValidationError]}
    ELSE chat_completions(engine, ChatRequest(body), behaviours)

\* POST /v1/chat/completions: the body is validated against ChatRequest
\* before the handler runs
post_chat_completions(engine, body, behaviours) ==
    LET request == ChatRequest(body)
    IN  IF ~request.ok
        THEN {[calls |-> <<>>, response |-> RequestValidationError]}
        ELSE chat_completions(engine, request, behaviours)

(***************************************************************************)
(* app_simple.py: the demo server's chat handler.                          *)
(***************************************************************************)
\* the loop over reversed(request.messages): the content of the last user
\* message, or the empty text
RECURSIVE last_user_message(_)
last_user_message(messages) ==
    IF messages = <<>> THEN <<>>
    ELSE IF messages[Len(messages)].role = "user"
    THEN messages[Len(messages)].content
    ELSE last_user_message(SubSeq(messages, 1, Len(messages) - 1))

demo_responses(user_message) ==
    << Join(<<"Hello!", "You", "said:">>) \o <<" ", "'">> \o user_message \o <<"'.", " ">>
          \o Join(<<"This", "is", "a", "demo", "response", "from", "the", "vLLM", "PoC", "server.">>),
       Join(<<"I", "received", "your", "message:">>) \o <<" ", "'">> \o user_message \o <<"'.", " ">>
          \o Join(<<"In", "a", "real", "deployment,", "this", "would", "be", "processed", "by", "vLLM.">>),
       Join(<<"Demo", "mode:", "Your", "input", "was">>) \o <<" ", "'">> \o user_message \o <<"'.", " ">>
          \o Join(<<"The", "actual", "vLLM", "would", "generate", "a", "more", "sophisticated",
                    "response.">>) >>

\* chat_completions of the demo server, choice being what random.choice picks
simple_chat_completions(request, choice) ==
    LET user_message == last_user_message(request.messages)
        generated_text == demo_responses(user_message)[choice]
    IN  OK([kind |-> "chat",
            id |-> <<"demo-", "time">>,
            choices |-> <<[index |-> 0,
                           message |-> [role |-> "assistant", content |-> generated_text],
                           finish_reason |-> "stop"]>>,
            usage |-> [prompt_tokens |-> IF user_message # <<>> THEN split_len(user_message) ELSE 0,
                       completion_tokens |-> split_len(generated_text),
                       total_tokens |-> IF user_message # <<>>
                                        THEN split_len(user_message) + split_len(generated_text)
                                        ELSE split_len(generated_text)]])

\* POST /v1/chat/completions of the demo server
simple_post_chat_completions(body) ==
    LET request == ChatRequest(body)
    IN  IF ~request.ok
        THEN {RequestValidationError}
        ELSE {simple_chat_completions(request, choice) : choice \in 1..Len(demo_responses(<<>>))}

(***************************************************************************)
(* Inputs.                                                                 *)
(***************************************************************************)
Hello == <<"Hello">>

NoKnobs(messages) ==
    [messages |-> messages, max_tokens |-> Omitted, temperature |-> Omitted, top_p |-> Omitted]

\* bodies sent while the server starts, serves and stops: malformed ones and
\* a few well-formed ones
LifecycleBodies ==
    { NoKnobs(MissingMessages),
      NoKnobs(StringMessages),
      NoKnobs(ArrayMessages(<<Msg("user", Hello), MsgNoContent("user")>>)),
      NoKnobs(ArrayMessages(<<>>)),
      NoKnobs(ArrayMessages(<<Msg("user", Hello)>>)),
      [messages |-> ArrayMessages(<<Msg("system", <<"Be", " ", "brief">>), Msg("user", Hello)>>),
       max_tokens |-> Number(64), temperature |-> Null, top_p |-> Number(5)] }

\* candidate lists one output of the library's engine may carry
CandidateLists ==
    { <<>>,
      << <<>> >>,
      << <<" ", "\n">> >>,
      << <<"Hi", " ", "there">> >>,
      << <<" ", "Hi", "!", "\n">>, <<"Bye">> >> }

\* behaviours of the library's engine on one generate call
EngineBehaviours ==
    {Stream(y, FALSE, <<>>) : y \in SeqsUpTo(CandidateLists, MaxStream)}
        \cup {Stream(y, TRUE, <<"CUDA", " ", "out", " ", "of", " ", "memory">>) :
                 y \in SeqsUpTo(CandidateLists, MaxStream)}

\* the few behaviours used where the requests are many
FewBehaviours ==
    { Stream(<< << <<"Hi", " ", "there">> >> >>, FALSE, <<>>),
      Stream(<< << <<" ", "\n">> >> >>, FALSE, <<>>),
      Stream(<<>>, TRUE, <<"CUDA", " ", "out", " ", "of", " ", "memory">>) }

Roles == {"user", "assistant", "system"}
Contents == {<<>>, <<"Hello", " ", "world">>}
KnobValues(v) == {Omitted, Null, Number(0), Number(v)}

\* well-formed bodies: every message list up to MaxMsgs, every choice of knobs
ChatBodies ==
    {[messages |-> ArrayMessages(m), max_tokens |-> mt, temperature |-> t, top_p |-> p] :
        m \in SeqsUpTo({Msg(r, c) : r \in Roles, c \in Contents}, MaxMsgs),
        mt \in KnobValues(64), t \in KnobValues(10), p \in KnobValues(5)}

(***************************************************************************)
(* State.                                                                  *)
(***************************************************************************)
VARIABLES
    VLLM_AVAILABLE,   \* whether the import of the vLLM library succeeded
    platform,         \* config_manager.platform
    config,           \* config_manager.config
    model_name,       \* config_manager.env_vars["MODEL_NAME"]
    phase,            \* where lifespan stands
    llm_engine,       \* the process-wide engine handle
    inflight,         \* the request the client sent and awaits the response to
    response,         \* the response to it, once handled and until the client takes it
    generate_calls,   \* the generate calls made for the last request, each with the
                      \* stream the engine returned for it
    host,             \* the host of the process: platform.system(), platform.machine()
                      \* and the MODEL_NAME variable of the environment
    imported,         \* where the import of config.py stands
    probe_runs,       \* the runs of the nvidia-smi command in this process so far
    vllm_args         \* the dictionary get_vllm_args returned last

vars == <<VLLM_AVAILABLE, platform, config, model_name, phase, llm_engine,
          inflight, response, generate_calls, host, imported, probe_runs, vllm_args>>

\* what the import of config.py and app.py settles
settled == <<VLLM_AVAILABLE, platform, config, model_name, host, imported, probe_runs>>

static == <<settled, vllm_args>>

Host(system, machine, env) == [system |-> system, machine |-> machine, MODEL_NAME |-> env]

Hosts == {Host(system, machine, env) :
             system \in Systems, machine \in Machines, env \in EnvModelNames}

\* the runs of the command that building the table makes: all of them, or
\* those up to the first that raises
runs_of_command(probes) ==
    IF \E k \in 1..ProbeCalls : _has_cuda(probes[k]).raised
    THEN CHOOSE k \in 1..ProbeCalls :
             /\ _has_cuda(probes[k]).raised
             /\ \A j \in 1..(k - 1) : ~_has_cuda(probes[j]).raised
    ELSE ProbeCalls

NoRequest == [kind |-> "none", server |-> "app", body |-> NoKnobs(MissingMessages)]
ModelsRequest == [kind |-> "models", server |-> "app", body |-> NoKnobs(MissingMessages)]
HealthRequest == [kind |-> "health", server |-> "app", body |-> NoKnobs(MissingMessages)]
ChatRequestTo(server, body) == [kind |-> "chat", server |-> server, body |-> body]

\* the module is imported: the configuration is built (without raising), the
\* handle is unset and lifespan has not run
Init ==
    /\ VLLM_AVAILABLE \in BOOLEAN
    /\ host \in Hosts
    /\ \E probes \in [1..ProbeCalls -> ProbeOutcomes] :
          LET config_manager == ConfigManager(host.system, host.machine, probes,
                                              host.MODEL_NAME)
          IN  /\ ~config_manager.raised
              /\ platform = config_manager.platform
              /\ config = config_manager.config
              /\ model_name = config_manager.MODEL_NAME
              /\ probe_runs = runs_of_command(probes)
    /\ imported = "done"
    /\ vllm_args = NoArgs
    /\ phase = "created"
    /\ llm_engine = None
    /\ inflight = NoRequest
    /\ response = NoResponse
    /\ generate_calls = <<>>

(***************************************************************************)
(* lifespan.                                                               *)
(***************************************************************************)
\* what AsyncLLMEngine.from_engine_args(engine_args) ends in
InitOutcomes == {"initialized", "raises"}
\* what AsyncLLMEngine() ends in when the name is bound to the library's
\* class, whose constructor is not the stand-in's
NoArgsOutcomes == {"constructed", "raises"}

\* the part of lifespan before the yield: the new handle, or an exception
\* that leaves the except clause
lifespan_startup(vllm_available, init, noargs) ==
    IF vllm_available
    THEN IF init = "initialized"
         THEN [raised |-> FALSE, llm_engine |-> "engine"]
         ELSE IF noargs = "constructed"
              THEN [raised |-> FALSE, llm_engine |-> "engine"]
              ELSE [raised |-> TRUE, llm_engine |-> None]
    ELSE [raised |-> FALSE, llm_engine |-> "mock"]

Startup ==
    /\ phase = "created"
    /\ \E init \in InitOutcomes, noargs \in NoArgsOutcomes :
          LET started == lifespan_startup(VLLM_AVAILABLE, init, noargs)
          IN  /\ llm_engine' = started.llm_engine
              /\ phase' = IF started.raised THEN "failed" ELSE "serving"
    /\ vllm_args' = IF VLLM_AVAILABLE THEN get_vllm_args(platform, config, model_name)
                    ELSE vllm_args
    /\ UNCHANGED <<settled, inflight, response, generate_calls>>

\* the part of lifespan after the yield
lifespan_shutdown(engine) == IF engine # None THEN None ELSE engine

Shutdown ==
    /\ phase = "serving"
    /\ llm_engine' = lifespan_shutdown(llm_engine)
    /\ phase' = "stopped"
    /\ UNCHANGED <<static, inflight, response, generate_calls>>

(***************************************************************************)
(* Requests.                                                               *)
(***************************************************************************)
\* the client sends a request; the app object answers whether or not
\* lifespan has run
\* a process whose startup failed has exited
Alive == phase # "failed"

Idle ==
    /\ Alive
    /\ inflight = NoRequest
    /\ response = NoResponse

Send(request) ==
    /\ inflight' = request
    /\ UNCHANGED <<static, phase, llm_engine, response, generate_calls>>

SendHealth == Idle /\ Send(HealthRequest)

SendModels == Idle /\ Send(ModelsRequest)

SendChat == Idle /\ \E body \in LifecycleBodies : Send(ChatRequestTo("app", body))

SendChatBody ==
    Idle /\ \E body \in ChatBodies, server \in {"app", "app_simple"} :
                Send(ChatRequestTo(server, body))

Health ==
    /\ Alive
    /\ inflight.kind = "health"
    /\ response = NoResponse
    /\ response' = health_check(llm_engine, config, VLLM_AVAILABLE, model_name)
    /\ UNCHANGED <<static, phase, llm_engine, inflight, generate_calls>>

Models ==
    /\ Alive
    /\ inflight.kind = "models"
    /\ response = NoResponse
    /\ response' = list_models(model_name)
    /\ UNCHANGED <<static, phase, llm_engine, inflight, generate_calls>>

Chat(behaviours) ==
    /\ Alive
    /\ inflight.kind = "chat"
    /\ inflight.server = "app"
    /\ response = NoResponse
    /\ \E outcome \in post_chat_completions(llm_engine, inflight.body, behaviours) :
          /\ response' = outcome.response
          /\ generate_calls' = outcome.calls
    /\ UNCHANGED <<static, phase, llm_engine, inflight>>

ChatCompletions == Chat(EngineBehaviours)

ChatCompletionsFew == Chat(FewBehaviours)

SimpleChatCompletions ==
    /\ inflight.kind = "chat"
    /\ inflight.server = "app_simple"
    /\ response = NoResponse
    /\ \E r \in simple_post_chat_completions(inflight.body) : response' = r
    /\ UNCHANGED <<static, phase, llm_engine, inflight, generate_calls>>

\* the client takes the response
Deliver ==
    /\ response # NoResponse
    /\ response' = NoResponse
    /\ inflight' = NoRequest
    /\ generate_calls' = <<>>
    /\ UNCHANGED <<static, phase, llm_engine>>

Next ==
    \/ Startup
    \/ Shutdown
    \/ SendHealth
    \/ SendModels
    \/ SendChat
    \/ Health
    \/ Models
    \/ ChatCompletions
    \/ Deliver

Spec == Init /\ [][Next]_vars

(***************************************************************************)
(* The request/response study: the server is serving with the handle set,  *)
(* the demo server runs beside it, and every well-formed body is sent.     *)
(***************************************************************************)
InitChat ==
    /\ VLLM_AVAILABLE \in BOOLEAN
    /\ host = Host("Linux", <<"x86_64">>, "<unset>")
    /\ LET config_manager == ConfigManager(host.system, host.machine,
                                 [k \in 1..ProbeCalls |-> "notfound"], host.MODEL_NAME)
       IN  /\ platform = config_manager.platform
           /\ config = config_manager.config
           /\ model_name = config_manager.MODEL_NAME
    /\ imported = "done"
    /\ probe_runs = ProbeCalls
    /\ phase = "serving"
    /\ llm_engine = lifespan_startup(VLLM_AVAILABLE, "initialized", "raises").llm_engine
    /\ vllm_args = IF VLLM_AVAILABLE THEN get_vllm_args(platform, config, model_name)
                   ELSE NoArgs
    /\ inflight = NoRequest
    /\ response = NoResponse
    /\ generate_calls = <<>>

NextChat ==
    \/ SendChatBody
    \/ ChatCompletionsFew
    \/ SimpleChatCompletions
    \/ Deliver

SpecChat == InitChat /\ [][NextChat]_vars

(***************************************************************************)
(* The import of config.py on its own: from a host to the module's        *)
(* ConfigManager, then the callers of it.                                  *)
(***************************************************************************)
NoConfig == [name |-> None]

InitConfig ==
    /\ VLLM_AVAILABLE \in BOOLEAN
    /\ host \in Hosts
    /\ imported = "pending"
    /\ probe_runs = 0
    /\ platform = None
    /\ config = NoConfig
    /\ model_name = None
    /\ vllm_args = NoArgs
    /\ phase = "created"
    /\ llm_engine = None
    /\ inflight = NoRequest
    /\ response = NoResponse
    /\ generate_calls = <<>>

\* one ConfigManager(): the fields of the module's instance when it returns,
\* left as they were when it raises
Construct(probes) ==
    LET config_manager == ConfigManager(host.system, host.machine, probes,
                                        host.MODEL_NAME)
    IN  /\ probe_runs' = probe_runs + runs_of_command(probes)
        /\ IF config_manager.raised
           THEN /\ imported' = "raised"
                /\ UNCHANGED <<platform, config, model_name>>
           ELSE /\ platform' = config_manager.platform
                /\ config' = config_manager.config
                /\ model_name' = config_manager.MODEL_NAME
                /\ imported' = IF imported = "pending" THEN "done" ELSE "main"

\* config = ConfigManager() at module level
ImportConfig ==
    /\ imported = "pending"
    /\ \E probes \in [1..ProbeCalls -> ProbeOutcomes] : Construct(probes)
    /\ UNCHANGED <<VLLM_AVAILABLE, host, vllm_args, phase, llm_engine, inflight,
                   response, generate_calls>>

\* config = ConfigManager() again when the module is run as a script
ScriptMain ==
    /\ imported = "done"
    /\ vllm_args = NoArgs
    /\ \E probes \in [1..ProbeCalls -> ProbeOutcomes] : Construct(probes)
    /\ UNCHANGED <<VLLM_AVAILABLE, host, vllm_args, phase, llm_engine, inflight,
                   response, generate_calls>>

\* a caller of get_config().get_vllm_args()
GetVllmArgs ==
    /\ imported = "done"
    /\ vllm_args = NoArgs
    /\ vllm_args' = get_vllm_args(platform, config, model_name)
    /\ UNCHANGED <<settled, phase, llm_engine, inflight, response, generate_calls>>

NextConfig ==
    \/ ImportConfig
    \/ ScriptMain
    \/ GetVllmArgs

SpecConfig == InitConfig /\ [][NextConfig]_vars

(***************************************************************************)
(* Vocabulary of the properties.                                           *)
(***************************************************************************)
\* this step is the handling of the request in flight
Handling == response = NoResponse /\ response' # NoResponse

\* the request in flight has been handled
Handled == response # NoResponse

ChatHandledBy(server) == Handled /\ inflight.kind = "chat" /\ inflight.server = server

SchemaValid == ChatRequest(inflight.body).ok

ModelNotLoaded == HTTPException(503, <<"Model not loaded">>)

\* a health request, or a chat request to the full server with a valid body
HealthOrValidChat ==
    \/ inflight.kind = "health"
    \/ (inflight.kind = "chat" /\ inflight.server = "app" /\ SchemaValid)

(***************************************************************************)
(* Engine availability.                                                    *)
(***************************************************************************)
\* C1 as stated: a health request or a valid chat request handled while the
\* handle is unset or is the stand-in engine is answered 503.
C1_StandInAnswers503 ==
    [][(Handling /\ HealthOrValidChat /\ llm_engine \in {None, "mock"})
           => response'.status = 503]_vars

\* C1, amended: a health request or a valid chat request is answered 503
\* "Model not loaded" when the handle is unset; when the handle is the
\* stand-in engine it is answered 200, health with status "demo_mode" and
\* chat with the stand-in's fixed text.
C1_UnavailableMeansUnset ==
    [][(Handling /\ HealthOrValidChat)
           => /\ (llm_engine = None => response' = ModelNotLoaded)
              /\ (llm_engine = "mock"
                    => /\ response'.status = 200
                       /\ (inflight.kind = "health" => response'.body.status = "demo_mode")
                       /\ (inflight.kind = "chat"
                             => response'.body.choices[1].message.content = MockText))]_vars

\* a health request answered by a server running on the stand-in engine
C1_Witness ==
    /\ Handled
    /\ inflight.kind = "health"
    /\ response.status = 200
    /\ response.body.status = "demo_mode"
    /\ llm_engine = "mock"

\* C2: GET /health answers 503 "Model not loaded" in every state in which
\* the handle is unset, whatever the configuration and whether or not vLLM
\* is importable, and answers something else only when the handle is set.
C2_Health503IffUnset ==
    [][(Handling /\ inflight.kind = "health")
           => /\ (response'.status = 503) <=> (llm_engine = None)
              /\ (response'.status = 503 => response'.detail = <<"Model not loaded">>)]_vars

\* a health request answered 503 before lifespan has run, on a CUDA host
\* with vLLM importable
C2_Witness ==
    /\ Handled
    /\ inflight.kind = "health"
    /\ response.status = 503
    /\ phase = "created"
    /\ VLLM_AVAILABLE
    /\ config.supports_cuda

\* C3: a chat request with a valid body handled while the handle is unset is
\* answered 503 "Model not loaded" and generate is not called.
C3_Chat503WhenUnset ==
    [][(Handling /\ inflight.kind = "chat" /\ inflight.server = "app" /\ SchemaValid
          /\ llm_engine = None)
           => /\ response' = ModelNotLoaded
              /\ generate_calls' = <<>>]_vars

\* a valid chat request answered 503 after shutdown
C3_Witness ==
    /\ ChatHandledBy("app")
    /\ SchemaValid
    /\ response = ModelNotLoaded
    /\ generate_calls = <<>>
    /\ phase = "stopped"

\* C4: a chat request whose messages is not a sequence of role/content
\* objects is answered 422 and generate is not called, whether the handle is
\* set or unset.
C4_Invalid422BeforeEngineCheck ==
    (ChatHandledBy("app") /\ ~SchemaValid)
        => /\ response.status = 422
           /\ generate_calls = <<>>

\* messages given as a string, answered 422 while the handle has never been set
C4_Witness ==
    /\ ChatHandledBy("app")
    /\ inflight.body.messages.kind = "string"
    /\ response.status = 422
    /\ phase = "created"
    /\ llm_engine = None

(***************************************************************************)
(* Startup.                                                                *)
(***************************************************************************)
\* C6 as stated: startup never aborts, and once lifespan has reached its
\* yield the handle is set.
C6_StartupEndsWithHandleSet ==
    /\ phase # "failed"
    /\ (phase = "serving" => llm_engine # None)

(***************************************************************************)
(* Generation.                                                             *)
(***************************************************************************)
\* the stream the engine returned for the request in flight
Results == generate_calls[1].results

Generated == ChatHandledBy("app") /\ generate_calls # <<>>

Items == inflight.body.messages.items

\* the transcript of a message list: the user and assistant messages, each
\* on its own line behind its prefix, then the cue
RECURSIVE Flatten(_)
Flatten(lines) == IF lines = <<>> THEN <<>> ELSE Head(lines) \o Flatten(Tail(lines))

Transcript(items) ==
    LET spoken == SelectSeq(items, LAMBDA m : m.role \in {"user", "assistant"})
        line(m) == <<(IF m.role = "user" THEN "User:" ELSE "Assistant:"), " ">>
                       \o m.content \o <<"\n">>
    IN  Flatten([i \in 1..Len(spoken) |-> line(spoken[i])]) \o <<"Assistant:">>

\* C7: with the engine present, the prompt handed to generate is the
\* transcript of the request's messages: user and assistant messages in
\* request order behind "User: " and "Assistant: ", other roles left out,
\* the cue "Assistant:" once at the end.
C7_PromptIsTranscript ==
    ChatHandledBy("app")
        => /\ Len(generate_calls) = 1
           /\ generate_calls[1].call.prompt = Transcript(Items)

\* a system message followed by an assistant message with text
C7_Witness ==
    /\ Generated
    /\ Len(Items) = 2
    /\ Items[1].role = "system"
    /\ Items[1].content # <<>>
    /\ Items[2].role = "assistant"
    /\ response.status = 200

\* the value generate must receive for a knob, as C8 states it
AsSupplied(raw, passed, default) ==
    /\ (raw.kind = "number" => passed = raw.val)
    /\ (raw.kind = "omitted" => passed = default)

\* C8: generate receives the request's own max_tokens, temperature and
\* top_p, zero included, and the defaults 512, 0.7 and 0.9 for the knobs the
\* request omitted.
C8_SamplingParamsAsSupplied ==
    Generated
        => LET passed == generate_calls[1].call.sampling_params
           IN  /\ AsSupplied(inflight.body.max_tokens, passed.max_tokens, DEFAULT_MAX_TOKENS)
               /\ AsSupplied(inflight.body.temperature, passed.temperature, DEFAULT_TEMPERATURE)
               /\ AsSupplied(inflight.body.top_p, passed.top_p, DEFAULT_TOP_P)

\* c is t without its leading and trailing whitespace
IsTrimOf(c, t) ==
    \E i \in 0..Len(t), j \in 0..Len(t) :
        /\ i + j <= Len(t)
        /\ c = SubSeq(t, i + 1, Len(t) - j)
        /\ \A k \in 1..i : t[k] \in Whitespace
        /\ \A k \in (Len(t) - j + 1)..Len(t) : t[k] \in Whitespace
        /\ (c = <<>> \/ (c[1] \notin Whitespace /\ c[Len(c)] \notin Whitespace))

\* the stream yielded at least one output and ended normally
Completed == Generated /\ ~Results.raises /\ Results.yields # <<>>

LastOutput == Results.yields[Len(Results.yields)]

OneAssistantChoice(content_ok(_)) ==
    /\ response.status = 200
    /\ Len(response.body.choices) = 1
    /\ response.body.choices[1].index = 0
    /\ response.body.choices[1].finish_reason = "stop"
    /\ response.body.choices[1].message.role = "assistant"
    /\ content_ok(response.body.choices[1].message.content)

\* C9 as stated: a stream that yields at least one output and ends normally
\* is answered 200 with one choice whose content is the trimmed text of the
\* first candidate of the last output, and that content is not empty.
C9_LastOutputNonEmptyContent ==
    Completed
        => OneAssistantChoice(LAMBDA c : /\ IsTrimOf(c, LastOutput.outputs[1])
                                         /\ c # <<>>)

\* C9, amended: such a stream is answered 200 with one choice (index 0,
\* finish_reason "stop", role "assistant") whose content is the trimmed text
\* of the first candidate of the last output, which is empty when that text
\* is empty or only whitespace; a last output without candidates is
\* answered 500.
C9_LastOutputFirstCandidate ==
    Completed
        => IF LastOutput.outputs = <<>>
           THEN response.status = 500
           ELSE OneAssistantChoice(LAMBDA c : IsTrimOf(c, LastOutput.outputs[1]))

\* two outputs, the last with two candidates and whitespace around the first
C9_Witness ==
    /\ Completed
    /\ Len(Results.yields) = 2
    /\ Results.yields[1].outputs # LastOutput.outputs
    /\ Len(LastOutput.outputs) = 2
    /\ response.status = 200
    /\ response.body.choices[1].message.content # LastOutput.outputs[1]

(***************************************************************************)
(* Usage.                                                                  *)
(***************************************************************************)
\* the number of whitespace-separated words, counted at the end of each word
RECURSIVE WordCount(_)
WordCount(s) ==
    IF s = <<>> THEN 0
    ELSE LET rest == Tail(s)
         IN  IF Head(s) \in Whitespace THEN WordCount(rest)
             ELSE (IF rest = <<>> \/ Head(rest) \in Whitespace THEN 1 ELSE 0) + WordCount(rest)

\* the content of the last user message, the empty text if there is none
LastUserContent(items) ==
    LET users == {i \in 1..Len(items) : items[i].role = "user"}
    IN  IF users = {} THEN <<>>
        ELSE items[CHOOSE i \in users : \A k \in users : k <= i].content

Usage == response.body.usage

SuccessfulChat(server) == ChatHandledBy(server) /\ response.status = 200

\* the text the full server generated: the first candidate of the last output
GeneratedText == LastOutput.outputs[1]

\* C10 as stated: in both servers prompt_tokens is the word count of the
\* prompt built for generation, completion_tokens the word count of the
\* generated text, and total_tokens their sum.
C10_UsageCountsPromptWords ==
    /\ SuccessfulChat("app")
         => /\ Usage.prompt_tokens = WordCount(generate_calls[1].call.prompt)
            /\ Usage.completion_tokens = WordCount(GeneratedText)
            /\ Usage.total_tokens = Usage.prompt_tokens + Usage.completion_tokens
    /\ SuccessfulChat("app_simple")
         => /\ Usage.prompt_tokens = WordCount(Transcript(Items))
            /\ Usage.completion_tokens = WordCount(response.body.choices[1].message.content)
            /\ Usage.total_tokens = Usage.prompt_tokens + Usage.completion_tokens

\* C10, amended: in the full server prompt_tokens is the word count of the
\* prompt sent for generation and completion_tokens that of the generated
\* text; in the demo server, which builds no prompt, prompt_tokens is the
\* word count of the last user message's content (0 without one) and
\* completion_tokens that of the demo text; in both total_tokens is their sum.
C10_UsageWordCounts ==
    /\ SuccessfulChat("app")
         => /\ Usage.prompt_tokens = WordCount(generate_calls[1].call.prompt)
            /\ Usage.completion_tokens = WordCount(GeneratedText)
            /\ Usage.total_tokens = Usage.prompt_tokens + Usage.completion_tokens
    /\ SuccessfulChat("app_simple")
         => /\ Usage.prompt_tokens = WordCount(LastUserContent(Items))
            /\ Usage.completion_tokens = WordCount(response.body.choices[1].message.content)
            /\ Usage.total_tokens = Usage.prompt_tokens + Usage.completion_tokens

\* the full server on an empty message list with a whitespace-only completion
C10_Witness ==
    /\ SuccessfulChat("app")
    /\ Items = <<>>
    /\ GeneratedText # <<>>
    /\ Usage.prompt_tokens = 1
    /\ Usage.completion_tokens = 0
    /\ Usage.total_tokens = 1

(***************************************************************************)
(* Model listing.                                                          *)
(***************************************************************************)
\* the configured model name: MODEL_NAME of the environment, else the
\* default of the platform
ConfiguredModelName ==
    IF host.MODEL_NAME # "<unset>" THEN host.MODEL_NAME
    ELSE IF config.supports_cuda THEN "microsoft/DialoGPT-medium"
    ELSE "microsoft/DialoGPT-small"

\* C11: GET /models answers 200 with a list of exactly one model record
\* whose id is the configured model name, with the handle set or unset and
\* before or after chat requests, and changes nothing of the server's state.
C11_ModelsListsConfiguredModel ==
    [][(Handling /\ inflight.kind = "models")
           => /\ response'.status = 200
              /\ response'.body.object = "list"
              /\ Len(response'.body.data) = 1
              /\ response'.body.data[1].id = ConfiguredModelName
              /\ UNCHANGED <<static, phase, llm_engine, inflight, generate_calls>>]_vars

\* the listing answered after shutdown, with MODEL_NAME set in the environment
C11_Witness ==
    /\ Handled
    /\ inflight.kind = "models"
    /\ response.status = 200
    /\ response.body.data[1].id = "my-org/my-model"
    /\ phase = "stopped"
    /\ llm_engine = None

(***************************************************************************)
(* Platform selection.                                                     *)
(***************************************************************************)
Configured == imported \in {"done", "main"}

\* the machines whose name holds arm or aarch64 in some letter case
ArmMachines == {<<"arm", "64">>, <<"aarch64">>, <<"ARM", "64">>}

\* the record the claim gives a host
RecordName ==
    CASE host.system = "Darwin" /\ host.machine \in ArmMachines -> "macOS Apple Silicon"
      [] host.system = "Darwin" /\ host.machine \notin ArmMachines -> "macOS Intel"
      [] host.system = "Linux" -> "Linux"
      [] host.system = "Windows" -> "Windows"
      [] OTHER -> "Linux"

\* C12: every (OS, architecture) pair is given exactly one of the four records:
\* darwin on arm/aarch64 the Apple Silicon one, other darwin the Intel one,
\* linux the Linux one, windows the Windows one, any other OS the tag
\* unknown and the Linux record; macOS records have supports_cuda false and
\* backend cpu.
C12_SelectionTotalOverHosts ==
    Configured =>
        /\ config.name = RecordName
        /\ config.name \in {"macOS Apple Silicon", "macOS Intel", "Linux", "Windows"}
        /\ platform = "unknown" <=> host.system \notin {"Darwin", "Linux", "Windows"}
        /\ platform = "macos_apple_silicon" <=> config.name = "macOS Apple Silicon"
        /\ platform = "macos_intel" <=> config.name = "macOS Intel"
        /\ platform = "windows" <=> config.name = "Windows"
        /\ host.system = "Darwin" => (~config.supports_cuda /\ config.vllm_backend = "cpu")

\* an OS that is none of the three, configured with the Linux record
C12_Witness ==
    /\ Configured
    /\ host.system = "FreeBSD"
    /\ platform = "unknown"
    /\ config.name = "Linux"

(***************************************************************************)
(* The CUDA probe.                                                         *)
(***************************************************************************)
\* C14: the nvidia-smi command is run at most once in a process, whichever
\* platform was detected; its result is cached for every field that needs it.
C14_ProbeRunsAtMostOnce == probe_runs <= 1

\* C15: the probe never fails its caller: every outcome of the command other
\* than exit status 0 reads as unavailable, so constructing the configuration
\* never raises because of the probe.
C15_ConstructionNeverRaises == imported # "raised"

\* C16: the selected record's backend is cuda exactly when its supports_cuda
\* is true, on every platform and for every sequence of probe outcomes, and
\* so the engine arguments hold gpu_memory_utilization exactly when the
\* backend is cuda.
C16_BackendCudaIffSupportsCuda ==
    Configured =>
        /\ config.vllm_backend = "cuda" <=> config.supports_cuda
        /\ vllm_args # NoArgs =>
               ("gpu_memory_utilization" \in DOMAIN vllm_args
                    <=> config.vllm_backend = "cuda")

====
